---- MODULE Spec2Model ----
(***************************************************************************)
(* Multi-user weather dashboard: the Express server (auth gate, city       *)
(* controller over the Mongo "cities" collection, weather fan-out) and the *)
(* browser client (auth.js, dashboard.js), as one state machine.           *)
(*                                                                         *)
(* A request lives in a slot of `req` from the moment the server receives  *)
(* it until its response is delivered.  Every `await` of a controller that *)
(* touches the database or the weather provider is a step of its own, so   *)
(* requests interleave exactly where Node's event loop lets them.          *)
(***************************************************************************)
EXTENDS Integers, Sequences, FiniteSets, TLC

\* ------------------------------------------------------------------ bounds
MaxCities == 2        \* city documents ever inserted (ObjectIds 1..MaxCities)
MaxReq    == 2        \* requests in flight at once
MaxTime   == 8        \* last clock reading, in days since the server started

\* ------------------------------------------------------- program constants
ExpiryDays == 7       \* jwt.sign(..., { expiresIn: '7d' })
ForecastFrom == 1     \* response.data.days.slice(1, 6)
ForecastTo == 6

\* -------------------------------------------------------------- input sets
Emails     == {"jo@x.com", "al@x.com"}
Passwords  == {"p1"}
WrongPasswords == {"p0"}
CityNames  == {"Paris", "Oslo"}
NoName     == "-"                      \* body without cityName
\* the bodies of POST /cities: { cityName, country }, { cityName }, {}
Bodies     == {<<"Paris", "FR">>, <<"Oslo", "-">>, <<NoName, "-">>}
Clients    == {"c1", "c2"}             \* HTTP agents: a browser, each with its token
Agents     == {"c1"}                   \* the one that acts where a single agent does
JWT_SECRET == "k1"                     \* process.env.JWT_SECRET
OtherKey   == "k0"                     \* a key that is not the server's
Slots      == 1..MaxReq
CityIds    == 1..MaxCities
UserIds    == 1..Cardinality(Emails)
NoUser     == 0                        \* req.userId left undefined

VARIABLES
  now,       \* the clock (Date.now()), in days
  users,     \* the users collection: set of [id, email, password]
  cities,    \* the cities collection: set of city documents
  nextId,    \* next ObjectId the driver hands out for a city
  req,       \* slot -> request in flight (or Idle)
  token,     \* client -> localStorage 'token'
  page,      \* client -> page shown ("index" | "dashboard")
  hist,      \* history: city id -> the favorite values its last (at most two)
             \* toggles found, each toggle run with no other write in between
  parity     \* history: city id -> whether the toggles of the stored city that
             \* were answered 200 are odd in number

vars == <<now, users, cities, nextId, req, token, page, hist, parity>>

\* ------------------------------------------------------------------ values
NoToken == [kind |-> "none", sub |-> NoUser, iat |-> 0, exp |-> 0, key |-> "-"]
Garbage == [kind |-> "garbage", sub |-> NoUser, iat |-> 0, exp |-> 0, key |-> "-"]
NoDoc   == [id |-> 0, userId |-> NoUser, cityName |-> NoName, country |-> "-",
            favorite |-> FALSE, addedAt |-> 0]
NoBody  == [message |-> "", token |-> NoToken, city |-> NoDoc,
            favorites |-> <<>>, cities |-> <<>>]
Idle    == [pc |-> "idle", from |-> "-", via |-> "-", op |-> "-", email |-> "-",
            userId |-> NoUser, id |-> 0, cityName |-> NoName, country |-> "-",
            doc |-> NoDoc, list |-> <<>>, wx |-> <<>>, clean |-> TRUE,
            status |-> 0, body |-> NoBody]

\* ------------------------------------------------------------ Token Service
\* jwt.sign({ id: user._id }, JWT_SECRET, { expiresIn: '7d' })
Issue(subjectId, t) ==
  [kind |-> "jwt", sub |-> subjectId, iat |-> t, exp |-> t + ExpiryDays,
   key |-> JWT_SECRET]

\* jwt.verify(token, JWT_SECRET): signature, then expiry (expired once the
\* clock has reached exp).
VerifyMutNoExpiry(hdr, t) == hdr.kind = "jwt" /\ hdr.key = JWT_SECRET
Verify(hdr, t) == hdr.kind = "jwt" /\ hdr.key = JWT_SECRET /\ t < hdr.exp

\* A token signed with a key that is not the server's.
Forged(subjectId, t) ==
  [kind |-> "jwt", sub |-> subjectId, iat |-> t, exp |-> t + ExpiryDays,
   key |-> OtherKey]


\* --------------------------------------------------------- Credential Store
\* bcrypt.hash(password, 10) and bcrypt.compare(entered, stored): the stored
\* value is not the password, and compares equal only to its own password.
Hash(pw) == <<"bcrypt", pw>>
Compare(entered, stored) == stored = Hash(entered)

UserByEmail(email) == {u \in users : u.email = email}

\* authController.register: check if user exists, hash, save, sign.
RegisterMutNoCheck(email, pw) ==
  LET u == [id |-> Cardinality(users) + 1, email |-> email, password |-> Hash(pw)]
  IN  [users |-> users \cup {u}, status |-> 201,
       body |-> [NoBody EXCEPT !.token = Issue(u.id, now)]]
RegisterResult(email, pw) ==
  IF UserByEmail(email) # {}
  THEN [users |-> users, status |-> 400,
        body |-> [NoBody EXCEPT !.message = "DuplicateEmail"]]
  ELSE LET u == [id |-> Cardinality(users) + 1, email |-> email,
                 password |-> Hash(pw)]
       IN  [users |-> users \cup {u}, status |-> 201,
            body |-> [NoBody EXCEPT !.token = Issue(u.id, now)]]

\* authController.login: find user by email, bcrypt.compare, sign.
LoginResult(email, pw) ==
  LET found == {u \in UserByEmail(email) : Compare(pw, u.password)}
  IN  IF found = {}
      THEN [status |-> 401, body |-> [NoBody EXCEPT !.message = "InvalidCredentials"]]
      ELSE [status |-> 200,
            body |-> [NoBody EXCEPT !.token = Issue((CHOOSE u \in found : TRUE).id, now)]]

\* ---------------------------------------------------------------- City Store
\* citySchema: favorite defaults to false, addedAt to Date.now.
NewCityMutFavorite(id, userId, cityName, country, t) ==
  [id |-> id, userId |-> userId, cityName |-> cityName, country |-> country,
   favorite |-> TRUE, addedAt |-> t]
NewCity(id, userId, cityName, country, t) ==
  [id |-> id, userId |-> userId, cityName |-> cityName, country |-> country,
   favorite |-> FALSE, addedAt |-> t]

\* citySchema.index({ userId: 1, cityName: 1 }, { unique: true })
UniqueIndexMutOff(userId, cityName) == FALSE
UniqueIndexHit(userId, cityName) ==
  \E c \in cities : c.userId = userId /\ c.cityName = cityName

\* City.find({ userId: req.userId })
FindMutAll(userId) == cities
FindByUser(userId) == {c \in cities : c.userId = userId}

\* City.findOne({ _id: req.params.id, userId: req.userId })
FindOneMutById(id, userId) == {c \in cities : c.id = id}
FindOne(id, userId) == {c \in cities : c.id = id /\ c.userId = userId}

\* .sort({ addedAt: -1 }): every ordering of the set with addedAt descending
\* (documents with equal addedAt come in either order).
IsSortedDesc(s) == \A i \in 1..(Len(s) - 1) : s[i].addedAt >= s[i + 1].addedAt
OrderingsMutUnsorted(S) ==
  {s \in [1..Cardinality(S) -> S] :
     \A i, j \in 1..Cardinality(S) : i # j => s[i] # s[j]}
Orderings(S) ==
  {s \in [1..Cardinality(S) -> S] :
     /\ \A i, j \in 1..Cardinality(S) : i # j => s[i] # s[j]
     /\ IsSortedDesc(s)}

\* ------------------------------------------------------------ Weather Gateway
Null == {}                               \* JSON null
Some(x) == {x}
\* Math.round on a number given in tenths
Round(tenths) == (tenths + 5) \div 10
\* String.prototype.toLowerCase on the provider's condition names
Lower(sv) == CASE sv = "Rain" -> "rain" [] sv = "Clear" -> "clear" [] OTHER -> sv

\* What the provider answers to one axios.get: a network/HTTP error, a 200
\* whose body lacks currentConditions, or data (temperatures in tenths).
WeatherReplies ==
  { [kind |-> "error", temp |-> 0, conditions |-> "-", days |-> <<>>],
    [kind |-> "malformed", temp |-> 0, conditions |-> "-", days |-> <<>>],
    [kind |-> "data", temp |-> -25, conditions |-> "Rain",
     days |-> <<200, 214, 186, 195, 225, 174, 160>>] }

\* response.data.days.slice(1, 6)
Slice(s, from, to) ==
  LET hi == IF to < Len(s) THEN to ELSE Len(s)
  IN  IF from >= hi THEN <<>> ELSE [i \in 1..(hi - from) |-> s[from + i]]

Pending(city) ==
  [state |-> "pending", id |-> city.id, cityName |-> city.cityName,
   isFavorite |-> city.favorite, temperature |-> Null, description |-> "-",
   forecast |-> <<>>]

\* the catch branch of the per-city callback
Degraded(city) ==
  [state |-> "degraded", id |-> city.id, cityName |-> city.cityName,
   isFavorite |-> city.favorite, temperature |-> Null,
   description |-> "unavailable", forecast |-> <<>>]

\* the try branch of the per-city callback
Live(city, reply) ==
  [state |-> "live", id |-> city.id, cityName |-> city.cityName,
   isFavorite |-> city.favorite, temperature |-> Some(Round(reply.temp)),
   description |-> Lower(reply.conditions),
   forecast |-> [i \in DOMAIN Slice(reply.days, ForecastFrom, ForecastTo) |->
                   Round(Slice(reply.days, ForecastFrom, ForecastTo)[i])]]

\* one branch of cities.map(async (city) => { try {...} catch {...} })
BranchMutThrow(city, reply) ==
  IF reply.kind = "data" THEN Live(city, reply)
  ELSE [Degraded(city) EXCEPT !.state = "thrown"]
Branch(city, reply) ==
  IF reply.kind = "data" THEN Live(city, reply) ELSE Degraded(city)

\* citiesWithWeather.filter(city => city.isFavorite)
FilterMutAll(s) == s
FilterFavorites(s) == SelectSeq(s, LAMBDA e : e.isFavorite)

\* ------------------------------------------------------------------ requests
Free == {r \in Slots : req[r].pc = "idle"}
\* the slot a new request takes
Slot == CHOOSE r \in Free : \A q \in Free : r <= q

Ok(status) == 200 <= status /\ status <= 299        \* response.ok

\* The response is sent: the handler's locals are gone.  What stays is the
\* request as sent (who, route, parameters, req.userId) and the response.
Respond(q, status, body) ==
  [Idle EXCEPT !.pc = "done", !.from = q.from, !.via = q.via, !.op = q.op,
               !.email = q.email, !.userId = q.userId, !.id = q.id,
               !.status = status, !.body = body]

\* cityRoutes: router.post('/', authMiddleware, createCity), and so on: which
\* routes run authMiddleware before their controller.
UsesAuthMutOpenDelete(op) == op \in {"create", "list", "toggle"}
UsesAuth(op) == op \in {"create", "list", "toggle", "delete"}

\* The owner a controller puts in its query or document: req.userId, whatever
\* owner id the client supplied in the body or the path.
OwnerMutClaimed(reqUserId, claimed) ==
  IF claimed # NoUser THEN claimed ELSE reqUserId
Owner(reqUserId, claimed) == reqUserId

\* authMiddleware: extract the bearer token, jwt.verify, attach req.userId,
\* next(); otherwise 401.  Gives the request as the controller starts on it
\* (its query built, not yet sent), or the finished 401.
Gate(q, hdr, claimed) ==
  IF ~UsesAuth(q.op) THEN [q EXCEPT !.pc = "start", !.userId = Owner(NoUser, claimed)]
  ELSE IF Verify(hdr, now)
       THEN [q EXCEPT !.pc = "start", !.userId = Owner(hdr.sub, claimed)]
  ELSE Respond(q, 401, [NoBody EXCEPT !.message = "Unauthorized"])

\* The Authorization headers agent c can send: none, garbage, a token signed
\* with another key, or the token it holds.
Headers(c) == {NoToken, Garbage, token[c]} \cup {Forged(u, now) : u \in UserIds}

\* Creates in flight that have not reached the database yet.
PendingCreates ==
  Cardinality({r \in Slots : req[r].op = "create" /\ req[r].pc = "start"})

Init ==
  /\ now = 0
  /\ users = {}
  /\ cities = {}
  /\ nextId = 1
  /\ req = [r \in Slots |-> Idle]
  /\ token = [c \in Clients |-> NoToken]
  /\ page = [c \in Clients |-> "index"]
  /\ hist = [i \in CityIds |-> <<>>]
  /\ parity = [i \in CityIds |-> FALSE]

\* ------------------------------------------------------------ auth requests
\* The request as it leaves agent c: through a page's script, or directly.
Sent(c, via, op) == [Idle EXCEPT !.from = c, !.via = via, !.op = op]

\* POST /auth/register { name, email, password }
Register(c, via, email, pw) ==
  /\ Free # {}
  /\ via = "page" => page[c] = "index"
  /\ LET res == RegisterResult(email, pw)
     IN  /\ users' = res.users
         /\ req' = [req EXCEPT ![Slot] =
                      Respond([Sent(c, via, "register") EXCEPT !.email = email],
                              res.status, res.body)]
  /\ UNCHANGED <<now, cities, nextId, token, page, hist, parity>>

\* POST /auth/login { email, password }
Login(c, via, email, pw) ==
  /\ Free # {}
  /\ via = "page" => page[c] = "index"
  /\ LET res == LoginResult(email, pw)
     IN  req' = [req EXCEPT ![Slot] =
                   Respond([Sent(c, via, "login") EXCEPT !.email = email],
                           res.status, res.body)]
  /\ UNCHANGED <<now, users, cities, nextId, token, page, hist, parity>>

\* ------------------------------------------------------------ city requests
\* A request to one of the city routes arrives: the router runs the gate and
\* the controller starts.
Receive(q, hdr, claimed) ==
  /\ Free # {}
  /\ req' = [req EXCEPT ![Slot] = Gate(q, hdr, claimed)]
  /\ UNCHANGED <<now, users, cities, nextId, token, page, hist, parity>>

\* POST /cities { cityName, country }; `claimed` is an owner id in the body.
PostCity(c, via, hdr, cityName, country, claimed) ==
  /\ nextId + PendingCreates <= MaxCities
  /\ Receive([Sent(c, via, "create") EXCEPT !.cityName = cityName,
                                            !.country = country], hdr, claimed)

\* GET /cities
GetCities(c, via, hdr) == Receive(Sent(c, via, "list"), hdr, NoUser)

\* PUT /cities/:id/favorite
PutFavorite(c, via, hdr, id) ==
  Receive([Sent(c, via, "toggle") EXCEPT !.id = id], hdr, NoUser)

\* DELETE /cities/:id
DeleteCity(c, via, hdr, id) ==
  Receive([Sent(c, via, "delete") EXCEPT !.id = id], hdr, NoUser)

\* --------------------------------------------------------------- createCity
\* await City.create({ userId: req.userId, cityName, country }): validation,
\* then the insert under the unique index; 201, 400 on E11000, 500 otherwise.
DoCreate(r) ==
  LET q == req[r] IN
  /\ q.pc = "start" /\ q.op = "create"
  /\ IF q.userId = NoUser \/ q.cityName = NoName
     THEN /\ req' = [req EXCEPT ![r] =
                       Respond(q, 500, [NoBody EXCEPT !.message = "validation failed"])]
          /\ UNCHANGED <<cities, nextId>>
     ELSE IF UniqueIndexHit(q.userId, q.cityName)
     THEN /\ req' = [req EXCEPT ![r] =
                       Respond(q, 400, [NoBody EXCEPT !.message = "City already added"])]
          /\ UNCHANGED <<cities, nextId>>
     ELSE LET city == NewCity(nextId, q.userId, q.cityName, q.country, now)
          IN  /\ nextId <= MaxCities
              /\ cities' = cities \cup {city}
              /\ nextId' = nextId + 1
              /\ req' = [req EXCEPT ![r] =
                           Respond(q, 201, [NoBody EXCEPT !.city = city])]
  /\ UNCHANGED <<now, users, token, page, hist, parity>>

\* ---------------------------------------------------------------- getCities
\* await City.find({ userId: req.userId }).sort({ addedAt: -1 }), then
\* cities.map(...) starts one weather call per city.
DoFind(r) ==
  LET q == req[r] IN
  /\ q.pc = "start" /\ q.op = "list"
  /\ \E s \in Orderings(FindByUser(q.userId)) :
       req' = [req EXCEPT ![r] =
                 [q EXCEPT !.pc = "weather", !.list = s,
                           !.wx = [i \in DOMAIN s |-> Pending(s[i])]]]
  /\ UNCHANGED <<now, users, cities, nextId, token, page, hist, parity>>

\* One weather call settles: the provider answered `reply`, and the per-city
\* callback returns its entry.
Settle(r, i, reply) ==
  LET q == req[r] IN
  /\ q.pc = "weather"
  /\ i \in DOMAIN q.wx
  /\ q.wx[i].state = "pending"
  /\ req' = [req EXCEPT ![r] = [q EXCEPT !.wx[i] = Branch(q.list[i], reply)]]
  /\ UNCHANGED <<now, users, cities, nextId, token, page, hist, parity>>

\* The entry as it is serialised: the callback's object.
Entry(e) == [id |-> e.id, cityName |-> e.cityName, isFavorite |-> e.isFavorite,
             temperature |-> e.temperature, description |-> e.description,
             forecast |-> e.forecast]

\* Promise.all has settled: filter the favorites and answer (500 if a branch
\* rejected).
Compose(r) ==
  LET q == req[r]
      out == [i \in DOMAIN q.wx |-> Entry(q.wx[i])] IN
  /\ q.pc = "weather"
  /\ \/ \A i \in DOMAIN q.wx : q.wx[i].state \in {"live", "degraded"}
     \/ \E i \in DOMAIN q.wx : q.wx[i].state = "thrown"
  /\ req' = [req EXCEPT ![r] =
       IF \E i \in DOMAIN q.wx : q.wx[i].state = "thrown"
       THEN Respond(q, 500, [NoBody EXCEPT !.message = "weather failed"])
       ELSE Respond(q, 200, [NoBody EXCEPT !.favorites = FilterFavorites(out),
                                           !.cities = out])]
  /\ UNCHANGED <<now, users, cities, nextId, token, page, hist, parity>>


\* ------------------------------------------------- toggleFavorite, deleteCity
\* await City.findOne({ _id: req.params.id, userId: req.userId }); 404 if null.
\* `clean` is history: nobody else has written the city since it was loaded.
DoFindOne(r) ==
  LET q == req[r]
      found == FindOne(q.id, q.userId) IN
  /\ q.pc = "start" /\ q.op \in {"toggle", "delete"}
  /\ req' = [req EXCEPT ![r] =
       IF found = {}
       THEN Respond(q, 404, [NoBody EXCEPT !.message = "City not found"])
       ELSE [q EXCEPT !.pc = "loaded", !.doc = CHOOSE c \in found : TRUE,
                      !.clean = TRUE]]
  /\ UNCHANGED <<now, users, cities, nextId, token, page, hist, parity>>

\* Request r has written city `id` and answers `mine`: every other request
\* that has loaded the city has been overtaken.
Overtake(r, id, mine) ==
  [s \in Slots |->
     IF s = r THEN mine
     ELSE IF req[s].pc = "loaded" /\ req[s].doc.id = id
          THEN [req[s] EXCEPT !.clean = FALSE]
     ELSE req[s]]

\* hist after a toggle that found `was`: the last two of a run of toggles
Noted(h, was) == IF Len(h) < 2 THEN Append(h, was) ELSE <<h[2], was>>

\* city.favorite = !city.favorite on the loaded document
FlipMutSetTrue(doc) == [doc EXCEPT !.favorite = TRUE]
Flip(doc) == [doc EXCEPT !.favorite = ~doc.favorite]

\* The update city.save() sends: $set of the modified path on the stored
\* document with that _id.
UpdateMutAll(cs, doc) == {[c EXCEPT !.favorite = doc.favorite] : c \in cs}
Update(cs, doc) ==
  {IF c.id = doc.id THEN [c EXCEPT !.favorite = doc.favorite] ELSE c : c \in cs}

\* await city.save(); no stored document with that _id any more is a
\* DocumentNotFoundError (500).
DoSave(r) ==
  LET q == req[r]
      doc == Flip(q.doc) IN
  /\ q.pc = "loaded" /\ q.op = "toggle"
  /\ IF \A c \in cities : c.id # doc.id
     THEN /\ req' = [req EXCEPT ![r] =
                       Respond(q, 500, [NoBody EXCEPT !.message = "No document found"])]
          /\ UNCHANGED <<cities, hist, parity>>
     ELSE /\ cities' = Update(cities, doc)
          /\ req' = Overtake(r, doc.id, Respond(q, 200, [NoBody EXCEPT !.city = doc]))
          /\ hist' = [hist EXCEPT ![doc.id] =
                        IF q.clean THEN Noted(hist[doc.id], q.doc.favorite) ELSE <<>>]
          /\ parity' = [parity EXCEPT ![doc.id] = ~parity[doc.id]]
  /\ UNCHANGED <<now, users, nextId, token, page>>

\* What city.deleteOne() leaves of the collection.
RemoveMutNothing(cs, doc) == cs
Remove(cs, doc) == {c \in cs : c.id # doc.id}

\* await city.deleteOne(), then 200 'City removed'.
DoDelete(r) ==
  LET q == req[r] IN
  /\ q.pc = "loaded" /\ q.op = "delete"
  /\ cities' = Remove(cities, q.doc)
  /\ req' = Overtake(r, q.doc.id,
                     Respond(q, 200, [NoBody EXCEPT !.message = "City removed"]))
  /\ hist' = [hist EXCEPT ![q.doc.id] = <<>>]
  /\ parity' = [parity EXCEPT ![q.doc.id] = FALSE]
  /\ UNCHANGED <<now, users, nextId, token, page>>

\* -------------------------------------------------------------------- client
\* The response reaches its sender.  auth.js: a response that is ok stores
\* data.token and opens the dashboard (an agent that registers or logs in
\* directly keeps the token it is given).  dashboard.js fetchCities: a 401
\* removes the token and opens the login page.  dashboard.js addCity,
\* toggleFavorite, deleteCity: a response that is ok is followed by
\* fetchCities(), any other only shows an error.  dashboard.js
\* DOMContentLoaded: the dashboard, once opened, calls fetchCities().  A page
\* that has been left handles nothing.
Opens(q) ==
  /\ q.via = "page" /\ q.op \in {"register", "login"}
  /\ page[q.from] = "index" /\ Ok(q.status)

Refetches(q) ==
  /\ q.via = "page" /\ q.op \in {"create", "toggle", "delete"}
  /\ page[q.from] = "dashboard" /\ Ok(q.status)

Deliver(r) ==
  LET q == req[r]
      c == q.from IN
  /\ q.pc = "done"
  /\ req' = [req EXCEPT ![r] =
       IF Opens(q) THEN Gate(Sent(c, "page", "list"), q.body.token, NoUser)
       ELSE IF Refetches(q) THEN Gate(Sent(c, "page", "list"), token[c], NoUser)
       ELSE Idle]
  /\ IF q.op \in {"register", "login"} /\ Ok(q.status)
        /\ (q.via = "page" => page[c] = "index")
     THEN /\ token' = [token EXCEPT ![c] = q.body.token]
          /\ page' = IF q.via = "page" THEN [page EXCEPT ![c] = "dashboard"] ELSE page
     ELSE IF q.via = "page" /\ q.op = "list" /\ page[c] = "dashboard" /\ q.status = 401
     THEN /\ token' = [token EXCEPT ![c] = NoToken]
          /\ page' = [page EXCEPT ![c] = "index"]
     ELSE UNCHANGED <<token, page>>
  /\ UNCHANGED <<now, users, cities, nextId, hist, parity>>

\* dashboard.js logout: remove the token, back to the login page.
Logout(c) ==
  /\ page[c] = "dashboard"
  /\ token' = [token EXCEPT ![c] = NoToken]
  /\ page' = [page EXCEPT ![c] = "index"]
  /\ UNCHANGED <<now, users, cities, nextId, req, hist, parity>>

\* ------------------------------------------------------------------- clock
Tick(d) ==
  /\ now + d <= MaxTime
  /\ now' = now + d
  /\ UNCHANGED <<users, cities, nextId, req, token, page, hist, parity>>

\* ------------------------------------------------------------ specifications
\* The server's own steps on the requests in flight.
Serve ==
  \/ \E r \in Slots : DoCreate(r)
  \/ \E r \in Slots : DoFind(r)
  \/ \E r \in Slots, i \in CityIds, w \in WeatherReplies : Settle(r, i, w)
  \/ \E r \in Slots : Compose(r)
  \/ \E r \in Slots : DoFindOne(r)
  \/ \E r \in Slots : DoSave(r)
  \/ \E r \in Slots : DoDelete(r)

\* No request is in flight.
Quiet == Free = Slots

\* The server under an agent that sends one request at a time, straight to
\* the API, with any header; the clock moves in steps longer than a token's
\* lifetime.
Next ==
  \/ Quiet /\ \E c \in Agents, e \in Emails, p \in Passwords :
       Register(c, "api", e, p)
  \/ Quiet /\ \E c \in Agents, e \in Emails, p \in Passwords \cup WrongPasswords :
       Login(c, "api", e, p)
  \/ Quiet /\ \E c \in Agents, b \in Bodies, o \in UserIds \cup {NoUser} :
       \E h \in Headers(c) : PostCity(c, "api", h, b[1], b[2], o)
  \/ Quiet /\ \E c \in Agents : \E h \in Headers(c) : GetCities(c, "api", h)
  \/ Quiet /\ \E c \in Agents, i \in CityIds :
       \E h \in Headers(c) : PutFavorite(c, "api", h, i)
  \/ Quiet /\ \E c \in Agents, i \in CityIds :
       \E h \in Headers(c) : DeleteCity(c, "api", h, i)
  \/ Serve
  \/ \E r \in Slots : Deliver(r)
  \/ Tick(ExpiryDays + 1)

Spec == Init /\ [][Next]_vars

\* The browsers: register or log in on the login page, load the dashboard
\* (fetchCities) with the stored token, log out; the clock moves day by day.
NextAuth ==
  \/ Quiet /\ \E c \in Clients, e \in Emails, p \in Passwords :
       Register(c, "page", e, p)
  \/ Quiet /\ \E c \in Clients, e \in Emails, p \in Passwords \cup WrongPasswords :
       Login(c, "page", e, p)
  \/ Quiet /\ \E c \in Clients : page[c] = "dashboard" /\ GetCities(c, "page", token[c])
  \/ \E r \in Slots : DoFind(r)
  \/ \E r \in Slots : Compose(r)
  \/ \E r \in Slots : Deliver(r)
  \/ \E c \in Clients : Logout(c)
  \/ Tick(1)

SpecAuth == Init /\ [][NextAuth]_vars

\* The server's own continuations are run by Node's event loop as soon as
\* they are ready, and a response on the wire reaches the client; a weather
\* call settles only when the provider answers (axios.get is given no
\* timeout), which nothing in the program makes happen.
NextLive ==
  \/ Quiet /\ \E c \in Agents, e \in Emails, p \in Passwords :
       Register(c, "api", e, p)
  \/ Quiet /\ \E c \in Agents, b \in Bodies :
       PostCity(c, "api", token[c], b[1], b[2], NoUser)
  \/ Quiet /\ \E c \in Agents : GetCities(c, "api", token[c])
  \/ \E r \in Slots : DoCreate(r)
  \/ \E r \in Slots : DoFind(r)
  \/ \E r \in Slots, i \in CityIds, w \in WeatherReplies : Settle(r, i, w)
  \/ \E r \in Slots : Compose(r)
  \/ \E r \in Slots : Deliver(r)

SpecLive ==
  /\ Init /\ [][NextLive]_vars
  /\ WF_vars(\E r \in Slots : DoCreate(r))
  /\ WF_vars(\E r \in Slots : DoFind(r))
  /\ WF_vars(\E r \in Slots : Compose(r))
  /\ WF_vars(\E r \in Slots : Deliver(r))

\* Requests that overlap: an agent that has registered (with nothing else in
\* flight) sends creates, toggles and deletes with the token it holds while
\* earlier requests are still in flight, and the handlers' database steps
\* interleave in any order.
NextRace ==
  \/ Quiet /\ \E c \in Agents, e \in Emails, p \in Passwords :
       Register(c, "api", e, p)
  \/ \E c \in Agents, b \in Bodies :
       token[c].kind = "jwt" /\ PostCity(c, "api", token[c], b[1], b[2], NoUser)
  \/ \E c \in Agents, i \in CityIds :
       token[c].kind = "jwt" /\ PutFavorite(c, "api", token[c], i)
  \/ \E c \in Agents, i \in CityIds :
       token[c].kind = "jwt" /\ DeleteCity(c, "api", token[c], i)
  \/ \E r \in Slots : DoCreate(r)
  \/ \E r \in Slots : DoFindOne(r)
  \/ \E r \in Slots : DoSave(r)
  \/ \E r \in Slots : DoDelete(r)
  \/ \E r \in Slots : Deliver(r)

SpecRace == Init /\ [][NextRace]_vars

\* The dashboard: a browser that has registered or logged in loads its cities
\* (fetchCities), adds a city by name (addCity), toggles or deletes a city of
\* its user that is stored, or logs out, one request at a time; the clock
\* moves in steps longer than a token's lifetime.
NextPage ==
  \/ Quiet /\ \E c \in Agents, e \in Emails, p \in Passwords :
       Register(c, "page", e, p)
  \/ Quiet /\ \E c \in Agents, e \in Emails, p \in Passwords \cup WrongPasswords :
       Login(c, "page", e, p)
  \/ Quiet /\ \E c \in Agents :
       page[c] = "dashboard" /\ GetCities(c, "page", token[c])
  \/ Quiet /\ \E c \in Agents, n \in CityNames :
       page[c] = "dashboard" /\ PostCity(c, "page", token[c], n, "-", NoUser)
  \/ Quiet /\ \E c \in Agents, i \in CityIds :
       /\ page[c] = "dashboard"
       /\ FindOne(i, token[c].sub) # {}
       /\ PutFavorite(c, "page", token[c], i)
  \/ Quiet /\ \E c \in Agents, i \in CityIds :
       /\ page[c] = "dashboard"
       /\ FindOne(i, token[c].sub) # {}
       /\ DeleteCity(c, "page", token[c], i)
  \/ Serve
  \/ \E r \in Slots : Deliver(r)
  \/ \E c \in Agents : Logout(c)
  \/ Tick(ExpiryDays + 1)

SpecPage == Init /\ [][NextPage]_vars

\* =================================================================== claims
\* The stored city with this id, as a set (empty when there is none).
Stored(id) == {c \in cities : c.id = id}
\* What a city response lists: the ids in `cities` and in `favorites`.
Listed(body) ==
  {body.cities[i].id : i \in DOMAIN body.cities}
    \cup {body.favorites[i].id : i \in DOMAIN body.favorites}

\* C1 -- Data isolation.  A response to GET /cities lists no city stored for
\* a user other than the requester; and whenever a stored city has its
\* favorite flag changed or is removed, the step is the write of a toggle
\* (for a flip) or of a delete (for a removal) whose requester is the city's
\* owner and whose path names that city.
C1_Isolation ==
  [][/\ \A r \in Slots :
          (req[r].pc = "weather" /\ req'[r].pc = "done") =>
            \A c \in cities :
              c.id \in Listed(req'[r].body) => c.userId = req[r].userId
     /\ \A c \in cities :
          /\ (\E d \in cities' : d.id = c.id /\ d.favorite # c.favorite) =>
               \E r \in Slots :
                 /\ req[r].op = "toggle" /\ req[r].pc = "loaded"
                 /\ req'[r].pc = "done"
                 /\ req[r].id = c.id /\ req[r].userId = c.userId
          /\ (\A d \in cities' : d.id # c.id) =>
               \E r \in Slots :
                 /\ req[r].op = "delete" /\ req[r].pc = "loaded"
                 /\ req'[r].pc = "done"
                 /\ req[r].id = c.id /\ req[r].userId = c.userId
    ]_vars

\* C1 witness: a toggle authenticated as one user, naming a city stored for
\* another, has been answered 404.
C1_Witness ==
  \E r \in Slots, c \in cities :
    /\ req[r].pc = "done" /\ req[r].op = "toggle" /\ req[r].status = 404
    /\ req[r].id = c.id
    /\ req[r].userId # NoUser /\ req[r].userId # c.userId

\* C2 -- Duplicate city.  A create whose owner already has a city of that
\* name is answered 400 'City already added' and the collection is as it was;
\* a create of a name that only other owners have stored is answered 201 and
\* the collection gains exactly the new city, owned by the requester.
C2_DuplicateCity ==
  [][\A r \in Slots :
       LET q == req[r]
           a == req'[r] IN
       (q.pc = "start" /\ q.op = "create" /\ a.pc = "done") =>
         /\ (\E c \in cities : c.userId = q.userId /\ c.cityName = q.cityName) =>
              /\ a.status = 400
              /\ a.body.message = "City already added"
              /\ cities' = cities
         /\ ( /\ \E c \in cities : c.userId # q.userId /\ c.cityName = q.cityName
              /\ \A c \in cities : ~(c.userId = q.userId /\ c.cityName = q.cityName) ) =>
              /\ a.status = 201
              /\ a.body.city \notin cities
              /\ cities' = cities \cup {a.body.city}
              /\ a.body.city.userId = q.userId
              /\ a.body.city.cityName = q.cityName
    ]_vars

\* C2 witness: a create by a user who has a city stored has been answered
\* 400 'City already added'.
C2_Witness ==
  \E r \in Slots, c \in cities :
    /\ req[r].pc = "done" /\ req[r].op = "create" /\ req[r].status = 400
    /\ req[r].body.message = "City already added"
    /\ c.userId = req[r].userId

\* C3 -- toggleFavorite is involutive.  When the last two writes to a stored
\* city are two successful toggles, run one after the other with no other
\* write to the city around them, its favorite flag is the value the first of
\* the two found.
C3_Involutive ==
  \A c \in cities : Len(hist[c.id]) = 2 => c.favorite = hist[c.id][1]

\* C3 witness: a city that was a favorite before two toggles in a row.
C3_Witness ==
  \E c \in cities : Len(hist[c.id]) = 2 /\ hist[c.id][1] = TRUE

\* The ids of the cities that have been stored and are stored no more.
Deleted == {i \in CityIds : i < nextId /\ Stored(i) = {}}

\* C4 -- Delete is final.  A delete answered 200 leaves no city with that id;
\* a city that is gone stays gone; from then on no GET /cities reads or lists
\* it (neither in `cities` nor in `favorites`), and a toggle or delete that
\* passed the gate and names its id is answered 404 'City not found'.
C4_DeleteFinal ==
  [][/\ Deleted \subseteq Deleted'
     /\ \A r \in Slots :
          LET q == req[r]
              a == req'[r] IN
          /\ (q.op = "delete" /\ q.pc = "loaded" /\ a.pc = "done" /\ a.status = 200) =>
               q.id \in Deleted'
          /\ (q.op = "list" /\ q.pc = "start" /\ a.pc = "weather") =>
               \A i \in DOMAIN a.list : a.list[i].id \notin Deleted
          /\ (q.op = "list" /\ q.pc = "weather" /\ a.pc = "done") =>
               Listed(a.body) \cap Deleted = {}
          /\ (q.op \in {"toggle", "delete"} /\ q.pc = "start" /\ a # q
                /\ q.id \in Deleted) =>
               /\ a.pc = "done" /\ a.status = 404
               /\ a.body.message = "City not found"
    ]_vars

\* C4 witness: a delete naming a city that is gone has been answered 404.
C4_Witness ==
  \E r \in Slots :
    /\ req[r].pc = "done" /\ req[r].op = "delete" /\ req[r].status = 404
    /\ req[r].id \in Deleted

\* The weather payload of a response entry.
Payload(e) == <<e.temperature, e.description, e.forecast>>

\* C5 -- Per-branch failure isolation.  A weather call that fails (an error,
\* or a body that cannot be read) gives its city the entry with temperature
\* null, description "unavailable" and an empty forecast; a call that
\* succeeds gives the rounded temperature, the lower-cased conditions and the
\* five rounded forecast days; neither touches another city's entry; and the
\* response is a 200 with one entry per city read, each carrying the payload
\* its own call produced, whatever calls failed.
C5_BranchIsolation ==
  [][\A r \in Slots :
       LET q == req[r]
           a == req'[r] IN
       /\ \A i \in CityIds, w \in WeatherReplies :
            Settle(r, i, w) =>
              /\ \A j \in DOMAIN q.wx : j # i => a.wx[j] = q.wx[j]
              /\ a.wx[i].id = q.list[i].id
              /\ a.wx[i].cityName = q.list[i].cityName
              /\ w.kind # "data" =>
                   Payload(a.wx[i]) = <<Null, "unavailable", <<>> >>
              /\ w.kind = "data" =>
                   Payload(a.wx[i]) = <<Some(-2), "rain", <<21, 19, 20, 23, 17>> >>
       /\ (q.op = "list" /\ q.pc = "weather" /\ a.pc = "done") =>
            /\ a.status = 200
            /\ DOMAIN a.body.cities = DOMAIN q.list
            /\ \A i \in DOMAIN q.list :
                 /\ a.body.cities[i].id = q.list[i].id
                 /\ Payload(a.body.cities[i]) = Payload(q.wx[i])
                 /\ q.wx[i].state # "pending"
    ]_vars

\* C5 witness: a 200 response listing one city whose call failed and one city
\* with live weather.
C5_Witness ==
  \E r \in Slots :
    /\ req[r].pc = "done" /\ req[r].op = "list" /\ req[r].status = 200
    /\ \E i, j \in DOMAIN req[r].body.cities :
         /\ req[r].body.cities[i].temperature = Null
         /\ req[r].body.cities[i].description = "unavailable"
         /\ req[r].body.cities[j].temperature = Some(-2)

\* A bearer token the server signed that has not expired.
Verified(h) == h.kind = "jwt" /\ h.key = JWT_SECRET /\ now < h.iat + ExpiryDays

\* C6 -- Auth gate.  A request to a city route whose header is a verified
\* token starts its controller with the token's subject as req.userId; with
\* any other header (none, garbage, foreign signature, expired) it is
\* finished at once with 401 and the collections are as they were.  A
\* finished request takes no further step but its delivery, and every request
\* inside a controller carries the id of a registered user.
C6_AuthGate ==
  [][/\ (Free # {} /\ req'[Slot].pc # "idle") =>
          \A c \in Agents : \A h \in Headers(c) :
            LET gated ==
                  IF Verified(h)
                  THEN req'[Slot].pc = "start" /\ req'[Slot].userId = h.sub
                  ELSE /\ req'[Slot].pc = "done" /\ req'[Slot].status = 401
                       /\ cities' = cities /\ users' = users
            IN  CASE req'[Slot].op = "create" ->
                       \A b \in Bodies, o \in UserIds \cup {NoUser} :
                         PostCity(c, "api", h, b[1], b[2], o) => gated
                  [] req'[Slot].op = "list" ->
                       GetCities(c, "api", h) => gated
                  [] req'[Slot].op = "toggle" ->
                       \A i \in CityIds : PutFavorite(c, "api", h, i) => gated
                  [] req'[Slot].op = "delete" ->
                       \A i \in CityIds : DeleteCity(c, "api", h, i) => gated
                  [] OTHER -> TRUE
     /\ \A r \in Slots :
          /\ req[r].pc = "done" => req'[r] \in {req[r], Idle}
          /\ req'[r].pc \in {"start", "weather", "loaded"} =>
               \E u \in users' : u.id = req'[r].userId
    ]_vars

\* C6 witness: a delete naming a stored city has been answered 401, and the
\* city is still stored.
C6_Witness ==
  \E r \in Slots :
    /\ req[r].pc = "done" /\ req[r].op = "delete" /\ req[r].status = 401
    /\ Stored(req[r].id) # {}

\* C7 -- Seven-day expiry.  Whenever a browser loads the dashboard with the
\* token it was given, whatever has happened since (other logins, logouts,
\* registrations): before the token is seven days old the request is accepted
\* as the token's subject, and once it is more than seven days old the
\* request is answered 401.
C7_Expiry ==
  [][\A c \in Clients :
       (page[c] = "dashboard" /\ GetCities(c, "page", token[c])) =>
         /\ token[c].kind = "jwt"
         /\ now - token[c].iat < ExpiryDays =>
              req'[Slot].pc = "start" /\ req'[Slot].userId = token[c].sub
         /\ now - token[c].iat > ExpiryDays =>
              req'[Slot].pc = "done" /\ req'[Slot].status = 401
    ]_vars

\* C7 witness: a dashboard load with a token issued eight days before has
\* been answered 401.
C7_Witness ==
  \E r \in Slots :
    /\ req[r].pc = "done" /\ req[r].op = "list" /\ req[r].status = 401
    /\ token[req[r].from].kind = "jwt"
    /\ now - token[req[r].from].iat = ExpiryDays + 1

\* C8 -- Duplicate email.  A registration with an email some stored user has
\* is answered 400 DuplicateEmail with no token, and the users collection is
\* as it was; the page that receives the 400 stores no token and stays where
\* it is; and no two stored users share an email.
C8_DuplicateEmail ==
  [][/\ \A c \in Clients, e \in Emails, p \in Passwords :
          (Register(c, "page", e, p) /\ \E u \in users : u.email = e) =>
            /\ req'[Slot].status = 400
            /\ req'[Slot].body.message = "DuplicateEmail"
            /\ req'[Slot].body.token = NoToken
            /\ users' = users
     /\ \A r \in Slots :
          (req[r].pc = "done" /\ req[r].op = "register" /\ req[r].status = 400
             /\ req'[r] = Idle) =>
            token' = token /\ page' = page
     /\ \A u, v \in users' : u.email = v.email => u = v
    ]_vars

\* C8 witness: a registration with a stored user's email has been answered
\* 400.
C8_Witness ==
  \E r \in Slots, u \in users :
    /\ req[r].pc = "done" /\ req[r].op = "register" /\ req[r].status = 400
    /\ u.email = req[r].email

\* The positions of the entries of s that are favorites.
Flagged(s) == {i \in DOMAIN s : s[i].isFavorite}
\* The k-th of them.
Nth(s, k) == CHOOSE i \in Flagged(s) : Cardinality({j \in Flagged(s) : j <= i}) = k

\* C9 -- Partition.  In a 200 response to GET /cities, `cities` has exactly
\* one entry for each city stored for the requester, each with the stored
\* name and the stored favorite flag as isFavorite, and `favorites` is the
\* entries of `cities` with isFavorite true, in the order they have there.
C9_Partition ==
  \A r \in Slots :
    (req[r].pc = "done" /\ req[r].op = "list" /\ req[r].status = 200) =>
      LET b == req[r].body
          mine == {c \in cities : c.userId = req[r].userId} IN
      /\ Len(b.cities) = Cardinality(mine)
      /\ \A c \in mine : \E i \in DOMAIN b.cities :
           /\ b.cities[i].id = c.id
           /\ b.cities[i].cityName = c.cityName
           /\ b.cities[i].isFavorite = c.favorite
      /\ Len(b.favorites) = Cardinality(Flagged(b.cities))
      /\ \A k \in DOMAIN b.favorites : b.favorites[k] = b.cities[Nth(b.cities, k)]

\* C9 witness: a response with two cities, of which only the second is a
\* favorite.
C9_Witness ==
  \E r \in Slots :
    /\ req[r].pc = "done" /\ req[r].op = "list" /\ req[r].status = 200
    /\ Len(req[r].body.cities) = 2
    /\ req[r].body.favorites = <<req[r].body.cities[2]>>

\* The response to a request for a city that is not there.
NotFound == <<404, [NoBody EXCEPT !.message = "City not found"]>>

\* C10 -- No existence leak.  The answer of toggleFavorite or deleteCity for
\* an id whose city is stored for another user is the answer for an id that
\* no stored city has: 404 with the body { message: 'City not found' }; and
\* in both cases the collection is as it was.
C10_NoLeak ==
  [][\A r \in Slots :
       LET q == req[r]
           a == req'[r] IN
       (q.op \in {"toggle", "delete"} /\ q.pc = "start" /\ a # q) =>
         /\ (\E c \in cities : c.id = q.id /\ c.userId # q.userId) =>
              a.pc = "done" /\ <<a.status, a.body>> = NotFound /\ cities' = cities
         /\ (\A c \in cities : c.id # q.id) =>
              a.pc = "done" /\ <<a.status, a.body>> = NotFound /\ cities' = cities
    ]_vars

\* C10 witness: a delete authenticated as one user, naming a city stored for
\* another, has been answered exactly as for a missing city.
C10_Witness ==
  \E r \in Slots, c \in cities :
    /\ req[r].pc = "done" /\ req[r].op = "delete"
    /\ <<req[r].status, req[r].body>> = NotFound
    /\ req[r].id = c.id
    /\ req[r].userId # NoUser /\ req[r].userId # c.userId

\* C11 -- Fan-in completion.  A GET /cities response is composed only when
\* no weather branch of the request is pending, and every GET /cities request
\* that has passed the gate is eventually answered, whether or not the
\* provider answers its calls.
C11_FanIn ==
  /\ [][\A r \in Slots :
          (req[r].op = "list" /\ req[r].pc = "weather" /\ req'[r].pc = "done") =>
            \A i \in DOMAIN req[r].wx : req[r].wx[i].state # "pending"]_vars
  /\ \A r \in Slots :
       (req[r].op = "list" /\ req[r].pc \in {"start", "weather"}) ~> (req[r].pc = "done")

\* C11 witness: a GET /cities request is waiting on a weather call while
\* another of its calls has settled.
C11_Witness ==
  \E r \in Slots :
    /\ req[r].op = "list" /\ req[r].pc = "weather"
    /\ \E i, j \in DOMAIN req[r].wx :
         req[r].wx[i].state = "pending" /\ req[r].wx[j].state # "pending"

\* C12 -- Uniqueness under overlap.  In every reachable state no two stored
\* cities have the same owner and name; and in any interleaving, a create
\* whose owner has a city of that name stored when its insert runs is
\* answered 400 'City already added' and stores nothing, while a create that
\* is answered 201 has stored exactly one city for a pair that was not
\* stored before.
C12_UniqueUnderRace ==
  /\ [](\A c, d \in cities :
          (c.userId = d.userId /\ c.cityName = d.cityName) => c = d)
  /\ [][\A r \in Slots :
          LET q == req[r]
              a == req'[r] IN
          (q.pc = "start" /\ q.op = "create" /\ a.pc = "done") =>
            /\ (\E c \in cities : c.userId = q.userId /\ c.cityName = q.cityName) =>
                 /\ a.status = 400 /\ a.body.message = "City already added"
                 /\ cities' = cities
            /\ a.status = 201 =>
                 /\ \A c \in cities : ~(c.userId = q.userId /\ c.cityName = q.cityName)
                 /\ cities' = cities \cup {a.body.city}
                 /\ a.body.city.userId = q.userId /\ a.body.city.cityName = q.cityName
                 /\ Cardinality(cities') = Cardinality(cities) + 1]_vars

\* C12 witness: two creates by one owner were in flight together; one has
\* been answered 201, the other 400, and the owner has one city stored.
C12_Witness ==
  \E r, s \in Slots :
    /\ req[r].pc = "done" /\ req[r].op = "create" /\ req[r].status = 201
    /\ req[s].pc = "done" /\ req[s].op = "create" /\ req[s].status = 400
    /\ req[s].userId = req[r].userId
    /\ Cardinality({c \in cities : c.userId = req[r].userId}) = 1

\* The toggles of city id that are still running.
Toggling(id) ==
  {r \in Slots : req[r].op = "toggle" /\ req[r].pc \in {"start", "loaded"}
                   /\ req[r].id = id}

\* C18 -- Parity under overlap.  Whenever no toggle of a stored city is
\* running, its favorite flag is its original value (false, at creation) if
\* the toggles of it that were answered 200 are even in number, and the
\* negation if they are odd, however their reads and writes interleaved.
C18_Parity ==
  \A c \in cities : Toggling(c.id) = {} => c.favorite = parity[c.id]

\* C18 witness: two toggles of one city, both answered 200, were in flight
\* together.
C18_Witness ==
  \E r, s \in Slots :
    /\ r # s /\ req[r].id = req[s].id
    /\ req[r].pc = "done" /\ req[r].op = "toggle" /\ req[r].status = 200
    /\ req[s].pc = "done" /\ req[s].op = "toggle" /\ req[s].status = 200

\* C13 -- Client re-authentication.  Whenever the dashboard receives a 401
\* for one of its authenticated requests (list, add city, toggle favorite,
\* delete city), it removes the stored token and is back on the login page.
C13_Reauth ==
  [][\A r \in Slots :
       LET q == req[r] IN
       ( /\ q.pc = "done" /\ q.via = "page" /\ q.status = 401
         /\ q.op \in {"list", "create", "toggle", "delete"}
         /\ page[q.from] = "dashboard"
         /\ req'[r] # q ) =>
         token'[q.from] = NoToken /\ page'[q.from] = "index"
    ]_vars

\* C13 witness: a toggle sent by the dashboard has been answered 401 while
\* the dashboard is open with its token stored.
C13_Witness ==
  \E r \in Slots :
    /\ req[r].pc = "done" /\ req[r].via = "page" /\ req[r].op = "toggle"
    /\ req[r].status = 401
    /\ page[req[r].from] = "dashboard" /\ token[req[r].from].kind = "jwt"

\* The addedAt of the stored city with this id.
AddedAt(id) == (CHOOSE c \in cities : c.id = id).addedAt

\* C14, as stated -- in a 200 response to GET /cities, of any two cities the
\* one created later (the one with the later ObjectId) comes earlier.
C14_LaterFirst ==
  \A r \in Slots :
    (req[r].pc = "done" /\ req[r].op = "list" /\ req[r].status = 200) =>
      \A i, j \in DOMAIN req[r].body.cities :
        i < j => req[r].body.cities[i].id > req[r].body.cities[j].id

\* C14, amended -- the documents GET /cities reads come in non-increasing
\* addedAt, so a city with a later addedAt comes before one with an earlier
\* addedAt (cities with the same addedAt come in either order); and the
\* response lists the cities in the order they were read, in whatever order
\* the weather calls settled.
C14_ByAddedAt ==
  [][\A r \in Slots :
       LET q == req[r]
           a == req'[r] IN
       /\ (q.op = "list" /\ q.pc = "start" /\ a.pc = "weather") =>
            \A i, j \in DOMAIN a.list :
              a.list[i].addedAt > a.list[j].addedAt => i < j
       /\ (q.op = "list" /\ q.pc = "weather" /\ a.pc = "done") =>
            /\ DOMAIN a.body.cities = DOMAIN q.list
            /\ \A i \in DOMAIN q.list : a.body.cities[i].id = q.list[i].id
            /\ \A i, j \in DOMAIN a.body.cities :
                 AddedAt(a.body.cities[i].id) > AddedAt(a.body.cities[j].id) => i < j
    ]_vars

\* C14 witness: a response lists two cities added at different times, the
\* later one first.
C14_Witness ==
  \E r \in Slots :
    /\ req[r].pc = "done" /\ req[r].op = "list" /\ req[r].status = 200
    /\ Len(req[r].body.cities) = 2
    /\ AddedAt(req[r].body.cities[1].id) > AddedAt(req[r].body.cities[2].id)

\* C15 -- Owner from the token only.  A create that passes the gate runs with
\* req.userId equal to the subject of its verified token, whatever owner id
\* its body claims; req.userId stays what the gate set for as long as the
\* request runs; the city a 201 stores is owned by req.userId; and the
\* documents a list reads, and the document a toggle or delete loads, are
\* owned by req.userId.
C15_OwnerFromToken ==
  [][/\ (Free # {} /\ req'[Slot].op = "create" /\ req'[Slot].pc = "start") =>
          \A c \in Agents, b \in Bodies, o \in UserIds \cup {NoUser} :
            \A h \in Headers(c) :
              PostCity(c, "api", h, b[1], b[2], o) =>
                Verified(h) /\ req'[Slot].userId = h.sub
     /\ \A r \in Slots :
          LET q == req[r]
              a == req'[r] IN
          /\ (q.pc \in {"start", "weather", "loaded"}) => a.userId = q.userId
          /\ (q.op = "create" /\ q.pc = "start" /\ a.status = 201) =>
               /\ a.body.city.userId = q.userId
               /\ cities' \ cities = {a.body.city}
          /\ (q.op = "list" /\ q.pc = "start" /\ a.pc = "weather") =>
               \A i \in DOMAIN a.list : a.list[i].userId = q.userId
          /\ (q.op \in {"toggle", "delete"} /\ q.pc = "start" /\ a.pc = "loaded") =>
               a.doc.userId = q.userId /\ a.doc.id = q.id
    ]_vars

\* C15 witness: with two users registered, a create has been answered 201
\* with a city owned by the user whose token the agent holds.
C15_Witness ==
  \E r \in Slots :
    /\ Cardinality(users) = 2
    /\ req[r].pc = "done" /\ req[r].op = "create" /\ req[r].status = 201
    /\ req[r].body.city.userId = token[req[r].from].sub
    /\ req[r].body.city \in cities

\* C16 -- Frame condition.  In every step, a stored city either is stored no
\* more or is stored with the same id, owner, name, country and addedAt; its
\* favorite flag differs only when the step is the save of a toggle of that
\* city by its owner, answered 200.  Every step of a GET /cities, a create
\* answered 400, a toggle or delete answered 404, and a toggle or delete of
\* another city leave it exactly as it was.
C16_Frame ==
  [][\A c \in cities :
       /\ \A d \in cities' : d.id = c.id =>
            /\ [d EXCEPT !.favorite = c.favorite] = c
            /\ d.favorite # c.favorite =>
                 \E r \in Slots :
                   /\ req[r].op = "toggle" /\ req[r].pc = "loaded"
                   /\ req[r].id = c.id /\ req[r].userId = c.userId
                   /\ req'[r].pc = "done" /\ req'[r].status = 200
       /\ \A r \in Slots :
            LET q == req[r]
                a == req'[r] IN
            (a # q /\ q.pc # "done") =>
              /\ q.op = "list" => c \in cities'
              /\ (q.op = "create" /\ a.status = 400) => c \in cities'
              /\ (q.op \in {"toggle", "delete"} /\ a.status = 404) => c \in cities'
              /\ (q.op \in {"toggle", "delete"} /\ q.id # c.id) => c \in cities'
    ]_vars

\* C16 witness: a toggle of one city has been answered 200 while the same
\* owner's other city is stored with the flag it was created with.
C16_Witness ==
  \E r \in Slots, c, d \in cities :
    /\ req[r].pc = "done" /\ req[r].op = "toggle" /\ req[r].status = 200
    /\ c.id = req[r].id /\ c.favorite
    /\ d.id # c.id /\ d.userId = c.userId /\ ~d.favorite

\* The entries of a sequence of response entries that have this id.
Entries(s, id) == {s[i] : i \in {j \in DOMAIN s : s[j].id = id}}

\* C17 -- A new city is not a favorite.  A create answered 201 stores and
\* returns the city with favorite false.  A 200 response to GET /cities lists
\* every stored city of the requester; one that has not been toggled since it
\* was created is in `cities` with isFavorite false and not in `favorites`;
\* one that has been toggled exactly once is in `cities` with isFavorite true
\* and in `favorites`.
C17_NewNotFavorite ==
  /\ [][\A r \in Slots :
          (req[r].op = "create" /\ req[r].pc = "start" /\ req'[r].status = 201) =>
            /\ ~req'[r].body.city.favorite
            /\ req'[r].body.city \in cities']_vars
  /\ [](\A r \in Slots :
          (req[r].pc = "done" /\ req[r].op = "list" /\ req[r].status = 200) =>
            \A c \in cities : c.userId = req[r].userId =>
              LET inCities == Entries(req[r].body.cities, c.id)
                  inFavorites == Entries(req[r].body.favorites, c.id) IN
              /\ inCities # {}
              /\ Len(hist[c.id]) = 0 =>
                   (\A e \in inCities : ~e.isFavorite) /\ inFavorites = {}
              /\ Len(hist[c.id]) = 1 =>
                   (\A e \in inCities : e.isFavorite) /\ inFavorites = inCities)

\* C17 witness: a response lists a city toggled once, in `favorites`, and a
\* city never toggled, outside `favorites`.
C17_Witness ==
  \E r \in Slots, c, d \in cities :
    /\ req[r].pc = "done" /\ req[r].op = "list" /\ req[r].status = 200
    /\ c.userId = req[r].userId /\ d.userId = req[r].userId
    /\ Len(hist[c.id]) = 1 /\ Entries(req[r].body.favorites, c.id) # {}
    /\ Len(hist[d.id]) = 0 /\ Entries(req[r].body.cities, d.id) # {}

====
